---- MODULE Spec2Model ----
(***************************************************************************)
(* Model of the two electrophilicity pipelines, write_electro_nbo.py and   *)
(* write_electro_properties.py: log scanning, value parsing, the global    *)
(* reactivity indices, the local-property combiner and the files written.  *)
(*                                                                         *)
(* Python floats are IEEE-754 binary64 values.  They are modelled exactly: *)
(* a float is a sign, a 53-bit integer significand and a binary exponent, *)
(* and every arithmetic operation rounds the exact result to nearest,     *)
(* ties to even.  The significands do not fit the integers of the model   *)
(* checker, so they are kept as little-endian sequences of 15-bit limbs.   *)
(***************************************************************************)
EXTENDS Integers, Sequences, FiniteSets, TLC

-----------------------------------------------------------------------------
(* Natural numbers of arbitrary size: little-endian limb sequences with no  *)
(* leading zero limb; <<>> is zero.                                         *)

LimbBits == 3 * 5
LimbBase == 2^LimbBits

Max(a, b) == IF a >= b THEN a ELSE b
Min(a, b) == IF a <= b THEN a ELSE b
Abs(n) == IF n < 0 THEN -n ELSE n

RECURSIVE BNorm(_)
BNorm(a) ==
    IF a = <<>> THEN <<>>
    ELSE IF a[Len(a)] = 0 THEN BNorm(SubSeq(a, 1, Len(a) - 1))
    ELSE a

RECURSIVE BFromInt(_)
BFromInt(n) ==
    IF n = 0 THEN <<>> ELSE <<n % LimbBase>> \o BFromInt(n \div LimbBase)

RECURSIVE BToInt(_)
BToInt(a) ==
    IF a = <<>> THEN 0 ELSE Head(a) + LimbBase * BToInt(Tail(a))

BTail(a) == IF a = <<>> THEN <<>> ELSE Tail(a)
BHead(a) == IF a = <<>> THEN 0 ELSE Head(a)

BCarryDigit(t) == <<t % LimbBase>>
BCarry(t) == t \div LimbBase

RECURSIVE BAddC(_, _, _)
BAddC(a, b, c) ==
    IF a = <<>> /\ b = <<>> THEN (IF c = 0 THEN <<>> ELSE <<c>>)
    ELSE BCarryDigit(BHead(a) + BHead(b) + c)
         \o BAddC(BTail(a), BTail(b), BCarry(BHead(a) + BHead(b) + c))

BAdd(a, b) == BAddC(a, b, 0)

RECURSIVE BSubC(_, _, _)
BSubC(a, b, c) ==
    IF a = <<>> THEN <<>>
    ELSE IF Head(a) - BHead(b) - c < 0
         THEN <<Head(a) - BHead(b) - c + LimbBase>> \o BSubC(Tail(a), BTail(b), 1)
         ELSE <<Head(a) - BHead(b) - c>> \o BSubC(Tail(a), BTail(b), 0)

\* a - b for a >= b
BSub(a, b) == BNorm(BSubC(a, b, 0))

RECURSIVE BCmpAt(_, _, _)
BCmpAt(a, b, i) ==
    IF i = 0 THEN 0
    ELSE IF a[i] > b[i] THEN 1
    ELSE IF a[i] < b[i] THEN -1
    ELSE BCmpAt(a, b, i - 1)

BCmp(a, b) ==
    IF Len(a) > Len(b) THEN 1
    ELSE IF Len(a) < Len(b) THEN -1
    ELSE BCmpAt(a, b, Len(a))

RECURSIVE BMulSmallC(_, _, _)
BMulSmallC(a, d, c) ==
    IF a = <<>> THEN (IF c = 0 THEN <<>> ELSE <<c>>)
    ELSE BCarryDigit(Head(a) * d + c) \o BMulSmallC(Tail(a), d, BCarry(Head(a) * d + c))

\* a * d for a limb d
BMulSmall(a, d) == BNorm(BMulSmallC(a, d, 0))

BShiftLimb(a) == IF a = <<>> THEN <<>> ELSE <<0>> \o a

RECURSIVE BMul(_, _)
BMul(a, b) ==
    IF a = <<>> \/ b = <<>> THEN <<>>
    ELSE BAdd(BMulSmall(a, Head(b)), BShiftLimb(BMul(a, Tail(b))))

\* a * 2^k
BShl(a, k) ==
    IF a = <<>> THEN <<>>
    ELSE [i \in 1..(k \div LimbBits) |-> 0] \o BMulSmall(a, 2^(k % LimbBits))

\* one step of short division, from the top limb down: hi is the quotient
\* and remainder of the limbs above
BDivSmallStep(hi, limb, d) ==
    [q |-> <<(hi.r * LimbBase + limb) \div d>> \o hi.q,
     r |-> (hi.r * LimbBase + limb) % d]

RECURSIVE BDivSmall(_, _)
BDivSmall(a, d) ==
    IF a = <<>> THEN [q |-> <<>>, r |-> 0]
    ELSE BDivSmallStep(BDivSmall(Tail(a), d), Head(a), d)

\* floor(a / 2^k)
BShr(a, k) ==
    IF k \div LimbBits >= Len(a) THEN <<>>
    ELSE BNorm(BDivSmall(SubSeq(a, (k \div LimbBits) + 1, Len(a)),
                         2^(k % LimbBits)).q)

RECURSIVE IntBitLen(_)
IntBitLen(n) == IF n = 0 THEN 0 ELSE 1 + IntBitLen(n \div 2)

BBitLen(a) ==
    IF a = <<>> THEN 0 ELSE LimbBits * (Len(a) - 1) + IntBitLen(a[Len(a)])

BIsOdd(a) == a # <<>> /\ a[1] % 2 = 1

RECURSIVE BFixDigit(_, _, _)
BFixDigit(r, b, q) ==
    IF BCmp(BMulSmall(b, q), r) > 0 THEN BFixDigit(r, b, q - 1) ELSE q

\* floor(r / b) for r < b * LimbBase, the top limb of b at least LimbBase/2
BDigit(r, b) ==
    IF BCmp(r, b) < 0 THEN 0
    ELSE BFixDigit(r, b,
             Min(LimbBase - 1,
                 ((IF Len(r) > Len(b) THEN r[Len(b) + 1] * LimbBase ELSE 0) + r[Len(b)])
                 \div b[Len(b)]))

\* one step of long division, from the top limb down
BLongDivDigit(hiq, r0, b, d) == [q |-> <<d>> \o hiq, r |-> BSub(r0, BMulSmall(b, d))]
BLongDivRem(hiq, r0, b) == BLongDivDigit(hiq, r0, b, BDigit(r0, b))
BLongDivStep(hi, limb, b) == BLongDivRem(hi.q, BNorm(<<limb>> \o hi.r), b)

RECURSIVE BLongDiv(_, _)
BLongDiv(a, b) ==
    IF a = <<>> THEN [q |-> <<>>, r |-> <<>>]
    ELSE BLongDivStep(BLongDiv(Tail(a), b), Head(a), b)

\* quotient of a by b # 0, and whether the division is exact
BQuotient(dm) == [q |-> BNorm(dm.q), exact |-> dm.r = <<>>]
BDivModShifted(a, b, s) == BQuotient(BLongDiv(BShl(a, s), BShl(b, s)))
BDivMod(a, b) == BDivModShifted(a, b, LimbBits - IntBitLen(b[Len(b)]))

\* a / 2^k rounded to the nearest integer, ties to even (sticky: a nonzero
\* fraction was already dropped below a); q is floor(a / 2^k) and c compares
\* the bits dropped with one half
BRoundDecide(q, c, sticky) ==
    IF c > 0 \/ (c = 0 /\ (sticky \/ BIsOdd(q))) THEN BAdd(q, <<1>>) ELSE q
BRoundFloor(a, k, sticky, q) ==
    BRoundDecide(q, BCmp(BSub(a, BShl(q, k)), BShl(<<1>>, k - 1)), sticky)
BRoundShr(a, k, sticky) ==
    IF k = 0 THEN a ELSE BRoundFloor(a, k, sticky, BShr(a, k))

-----------------------------------------------------------------------------
(* binary64 values: [k, s, m, e] is (-1)^s * m * 2^e for k = "fin", with m  *)
(* of exactly 53 bits (or fewer at the least exponent, or zero), and the   *)
(* infinities and NaN for k = "inf", "nan".                                 *)

SigBits == 53
ExpMin == -1074
ExpMax == 971

FZero(s) == [k |-> "fin", s |-> s, m |-> <<>>, e |-> 0]
FInf(s)  == [k |-> "inf", s |-> s, m |-> <<>>, e |-> 0]
FNaN     == [k |-> "nan", s |-> 0, m |-> <<>>, e |-> 0]

FIsZero(x) == x.k = "fin" /\ x.m = <<>>
SXor(a, b) == IF a = b THEN 0 ELSE 1

\* the double (-1)^s * m * 2^e for m of at most 53 bits, an infinity beyond
\* the largest exponent
FPack(s, m, e) ==
    IF m = <<>> THEN FZero(s)
    ELSE IF e > ExpMax THEN FInf(s)
    ELSE [k |-> "fin", s |-> s, m |-> m, e |-> e]

\* q is the significand after rounding: 54 bits when the rounding carried
FRenormalize(s, q, e) ==
    IF BBitLen(q) > SigBits THEN FPack(s, BShr(q, 1), e + 1) ELSE FPack(s, q, e)

\* sh is the count of low bits of M that do not fit
FRoundAt(s, M, E, sticky, sh) ==
    IF sh <= 0 THEN FPack(s, BShl(M, -sh), E + sh)
    ELSE FRenormalize(s, BRoundShr(M, sh, sticky), E + sh)

\* the double nearest to (-1)^s * M * 2^E (ties to even)
FRound(s, M, E, sticky) ==
    IF M = <<>> THEN FZero(s)
    ELSE FRoundAt(s, M, E, sticky, Max(BBitLen(M) - SigBits, ExpMin - E))

\* the double nearest to (-1)^s * (N / D) * 2^E
FRoundDivided(s, dm, E) == FRound(s, dm.q, E, ~dm.exact)
FRoundScaled(s, N, D, E, k) == FRoundDivided(s, BDivMod(BShl(N, k), D), E - k)
FRoundQuot(s, N, D, E) ==
    IF N = <<>> THEN FZero(s)
    ELSE FRoundScaled(s, N, D, E, Max(0, SigBits + 3 + BBitLen(D) - BBitLen(N)))

FNeg(x) == IF x.k = "nan" THEN x ELSE [x EXCEPT !.s = 1 - x.s]

FMul(x, y) ==
    IF x.k = "nan" \/ y.k = "nan" THEN FNaN
    ELSE IF x.k = "inf" \/ y.k = "inf"
         THEN IF FIsZero(x) \/ FIsZero(y) THEN FNaN ELSE FInf(SXor(x.s, y.s))
    ELSE FRound(SXor(x.s, y.s), BMul(x.m, y.m), x.e + y.e, FALSE)

\* the sum of (-1)^sx * mx * 2^e and (-1)^sy * my * 2^e, mx and my not zero
FAddSigned(sx, mx, sy, my, e, c) ==
    IF sx = sy THEN FRound(sx, BAdd(mx, my), e, FALSE)
    ELSE IF c = 0 THEN FZero(0)
    ELSE IF c > 0 THEN FRound(sx, BSub(mx, my), e, FALSE)
    ELSE FRound(sy, BSub(my, mx), e, FALSE)
FAddAligned(sx, mx, sy, my, e) == FAddSigned(sx, mx, sy, my, e, BCmp(mx, my))
FAddAt(x, y, e) == FAddAligned(x.s, BShl(x.m, x.e - e), y.s, BShl(y.m, y.e - e), e)

FAdd(x, y) ==
    IF x.k = "nan" \/ y.k = "nan" THEN FNaN
    ELSE IF x.k = "inf"
         THEN IF y.k = "inf" /\ y.s # x.s THEN FNaN ELSE x
    ELSE IF y.k = "inf" THEN y
    ELSE IF x.m = <<>> /\ y.m = <<>>
         THEN FZero(IF x.s = 1 /\ y.s = 1 THEN 1 ELSE 0)
    ELSE IF x.m = <<>> THEN y
    ELSE IF y.m = <<>> THEN x
    ELSE FAddAt(x, y, Min(x.e, y.e))

FSub(x, y) == FAdd(x, FNeg(y))

\* IEEE division: a zero divisor gives an infinity or NaN
FDiv(x, y) ==
    IF x.k = "nan" \/ y.k = "nan" THEN FNaN
    ELSE IF x.k = "inf"
         THEN IF y.k = "inf" THEN FNaN ELSE FInf(SXor(x.s, y.s))
    ELSE IF y.k = "inf" THEN FZero(SXor(x.s, y.s))
    ELSE IF y.m = <<>>
         THEN IF x.m = <<>> THEN FNaN ELSE FInf(SXor(x.s, y.s))
    ELSE FRoundQuot(SXor(x.s, y.s), x.m, y.m, x.e - y.e)

\* round to an integral value, ties to even
FRint(x) ==
    IF x.k # "fin" \/ x.e >= 0 THEN x
    ELSE FRound(x.s, BRoundShr(x.m, -x.e, FALSE), 0, FALSE)

-----------------------------------------------------------------------------
(* Text.  A line of a log is the marker string it contains (mark) and the    *)
(* list line.split() of its whitespace-delimited tokens (toks).  A token is  *)
(* a word or a decimal numeral (-1)^s * n / 10^d written with d decimals.    *)

Word(w)      == [num |-> FALSE, w |-> w, s |-> 0, n |-> 0, d |-> 0]
Num(s, n, d) == [num |-> TRUE, w |-> "", s |-> s, n |-> n, d |-> d]
Dec(n, d)    == Num(IF n < 0 THEN 1 ELSE 0, Abs(n), d)
Line(mark, toks) == [mark |-> mark, toks |-> toks]

Raise(e) == [err |-> e]
Ok(v)    == [err |-> "none", v |-> v]

\* float(token): the double nearest to the numeral, ValueError for a word
float(tok) ==
    IF tok.num
    THEN Ok(FRoundQuot(tok.s, BFromInt(tok.n), BFromInt(10^tok.d), 0))
    ELSE Raise("ValueError")

\* a float literal or an int operand converted to float
Lit(n, d) == FRoundQuot(IF n < 0 THEN 1 ELSE 0, BFromInt(Abs(n)), BFromInt(10^d), 0)

\* f"{x:.4f}": the sign and the count of 1e-4 units nearest to x (ties to even)
Format4Units(x, scaled) ==
    IF x.e >= 0 THEN BShl(scaled, x.e) ELSE BRoundShr(scaled, -x.e, FALSE)
Format4(x) ==
    IF x.k # "fin" THEN [k |-> x.k, s |-> x.s, n |-> 0]
    ELSE [k |-> "fin", s |-> x.s,
          n |-> BToInt(Format4Units(x, BMul(x.m, BFromInt(10^4))))]

\* numpy round(x, 4): multiply by 10^4, rint, divide by 10^4
NpRound4(x) == FDiv(FRint(FMul(x, Lit(10000, 0))), Lit(10000, 0))

\* the indices of the lines that contain a marker
Indices(lines, mark) == {i \in 1..Len(lines) : lines[i].mark = mark}
SetMax(S) == CHOOSE x \in S : \A y \in S : y <= x
SetMin(S) == CHOOSE x \in S : \A y \in S : x <= y
\* lines[k:] for a zero-based k
From(lines, k) == SubSeq(lines, k + 1, Len(lines))

-----------------------------------------------------------------------------
(* get_homo_lumo: the same in both pipelines                                 *)

IsOcc(l)  == l.mark = "occ"
IsVirt(l) == l.mark = "virt"

\* pop_indices[-1]
FirstAnchor(pop_indices) == SetMin(pop_indices)
LastAnchor(pop_indices) == SetMax(pop_indices)

get_homo_lumo(log) ==
    IF ~log.exists THEN Raise("FileNotFoundError")
    ELSE LET pop_indices == Indices(log.lines, "pop")
         IN  IF pop_indices = {} THEN Raise("IndexError")
             ELSE LET raw_text == SubSeq(log.lines, LastAnchor(pop_indices),
                                         Len(log.lines))
                      occ  == SelectSeq(raw_text, IsOcc)
                      virt == SelectSeq(raw_text, IsVirt)
                  IN  IF occ = <<>> THEN Raise("IndexError")
                      ELSE LET ot   == occ[Len(occ)].toks
                               homo == float(ot[Len(ot)])
                           IN  IF homo.err # "none" THEN homo
                               ELSE IF virt = <<>> THEN Raise("IndexError")
                               ELSE IF Len(virt[1].toks) < 5 THEN Raise("IndexError")
                               ELSE LET lumo == float(virt[1].toks[5])
                                    IN  IF lumo.err # "none" THEN lumo
                                        ELSE [err |-> "none", homo |-> homo.v,
                                              lumo |-> lumo.v]

-----------------------------------------------------------------------------
(* get_properties: the same in both pipelines                                *)

\* Python's float division: a zero divisor raises
PyTrueDivIEEE(x, y) == Ok(FDiv(x, y))
PyTrueDiv(x, y) == IF FIsZero(y) THEN Raise("ZeroDivisionError") ELSE Ok(FDiv(x, y))

\* x ** 2
PyPow2(x) == FMul(x, x)

\* kcal_mol_homo = 27.212 * homo, kcal_mol_lumo = 27.212 * lumo
AuToEnergyHartreeToEv(homo, lumo) ==
    [homo |-> FMul(Lit(272114, 4), homo), lumo |-> FMul(Lit(272114, 4), lumo)]
AuToEnergy(homo, lumo) == [homo |-> FMul(Lit(27212, 3), homo), lumo |-> FMul(Lit(27212, 3), lumo)]

\* electronegativity = (-1 * (kcal_mol_homo + kcal_mol_lumo)) / 2
Electronegativity(kcal_mol_homo, kcal_mol_lumo) ==
    FDiv(FMul(Lit(-1, 0), FAdd(kcal_mol_homo, kcal_mol_lumo)), Lit(2, 0))

\* hardness = kcal_mol_lumo - kcal_mol_homo
Hardness(kcal_mol_homo, kcal_mol_lumo) == FSub(kcal_mol_lumo, kcal_mol_homo)

\* softness = 1 / (2 * hardness)
Softness(hardness) == PyTrueDiv(Lit(1, 0), FMul(Lit(2, 0), hardness))

\* global_electrophilicity = electronegativity ** 2 / (2 * hardness)
GlobalElectrophilicity(electronegativity, hardness) ==
    PyTrueDiv(PyPow2(electronegativity), FMul(Lit(2, 0), hardness))

\* global_nucleophilicity = 1 / global_electrophilicity
GlobalNucleophilicity(global_electrophilicity) ==
    PyTrueDiv(Lit(1, 0), global_electrophilicity)

\* a statement that runs only when the one before it raised nothing
Then(before, after) == IF before.err = "none" THEN after ELSE Raise("not reached")
NotReached == Raise("not reached")
FirstError(steps) ==
    LET failed == {i \in 1..Len(steps) : steps[i].err \notin {"none", "not reached"}}
    IN  IF failed = {} THEN "none" ELSE steps[SetMin(failed)].err

\* the tuple returned, or the exception of the first division that raised
PropertiesReturned(electronegativity, hardness, softness, ge, gn) ==
    IF FirstError(<<softness, ge, gn>>) # "none"
    THEN Raise(FirstError(<<softness, ge, gn>>))
    ELSE [err |-> "none",
          electronegativity |-> electronegativity,
          hardness |-> hardness,
          softness |-> softness.v,
          global_electrophilicity |-> ge.v,
          global_nucleophilicity |-> gn.v]

PropertiesFromElectrophilicity(electronegativity, hardness, softness, ge) ==
    PropertiesReturned(electronegativity, hardness, softness, ge,
                       Then(ge, GlobalNucleophilicity(ge.v)))

PropertiesFromHardness(electronegativity, hardness, softness) ==
    PropertiesFromElectrophilicity(electronegativity, hardness, softness,
        Then(softness, GlobalElectrophilicity(electronegativity, hardness)))

PropertiesFromEnergies(kcal) ==
    PropertiesFromHardness(Electronegativity(kcal.homo, kcal.lumo),
                           Hardness(kcal.homo, kcal.lumo),
                           Softness(Hardness(kcal.homo, kcal.lumo)))

get_properties(homo, lumo) == PropertiesFromEnergies(AuToEnergy(homo, lumo))

-----------------------------------------------------------------------------
(* get_charge_table.  A table is a list of <<label, charge>> rows.  A label  *)
(* f"{a}{b}" is kept as the pair <<a, b>> of the two texts concatenated: an  *)
(* element symbol holds no digit, so the pair and the string determine each  *)
(* other.                                                                    *)

Label(a, b) == <<a, b>>

\* write_electro_nbo.py: the label is the element and the atom number column
RECURSIVE NboRows(_)
NboRows(table_text) ==
    IF table_text = <<>> THEN Ok(<<>>)
    ELSE LET entry == Head(table_text)
         IN  IF Len(entry) < 1 THEN Raise("IndexError")
             ELSE IF entry[1] = Word("H") THEN NboRows(Tail(table_text))
             ELSE IF Len(entry) < 3 THEN Raise("IndexError")
             ELSE LET charge == float(entry[3])
                      rest   == NboRows(Tail(table_text))
                  IN  IF charge.err # "none" THEN charge
                      ELSE IF rest.err # "none" THEN rest
                      ELSE Ok(<<<<Label(entry[1], entry[2]), charge.v>>>> \o rest.v)

get_charge_table_nbo(log) ==
    IF ~log.exists THEN Raise("FileNotFoundError")
    ELSE LET section_start_indices == Indices(log.lines, "section")
         IN  IF section_start_indices = {} THEN Raise("IndexError")
             ELSE LET raw1 == SubSeq(log.lines, SetMax(section_start_indices),
                                     Len(log.lines))
                      table_start_indices == Indices(raw1, "table")
                  IN  IF table_start_indices = {} THEN Raise("IndexError")
                      ELSE LET raw2 == From(raw1, SetMin(table_start_indices) - 1 + 6)
                               ends == Indices(raw2, "end")
                           IN  IF ends = {} THEN Raise("IndexError")
                               ELSE LET raw3 == SubSeq(raw2, 1, SetMin(ends) - 1)
                                    IN  NboRows([i \in 1..Len(raw3) |-> raw3[i].toks])

\* write_electro_properties.py: line.split()[1:] of every row
DropIndexColumn(rows) ==
    [i \in 1..Len(rows) |-> IF rows[i].toks = <<>> THEN <<>> ELSE Tail(rows[i].toks)]

RECURSIVE DropHydrogen(_)
DropHydrogen(table_text) ==
    IF table_text = <<>> THEN Ok(<<>>)
    ELSE LET line == Head(table_text)
             rest == DropHydrogen(Tail(table_text))
         IN  IF Len(line) < 1 THEN Raise("IndexError")
             ELSE IF rest.err # "none" THEN rest
             ELSE IF line[1] # Word("H") THEN Ok(<<line>> \o rest.v)
             ELSE rest

\* element_dict[element] += 1, or = 1 for an element not seen yet
CountSharedAcrossElements(element_dict, element) ==
    LET seen == {element_dict[e] : e \in DOMAIN element_dict}
    IN  (element :> (IF seen = {} THEN 1 ELSE SetMax(seen) + 1)) @@ element_dict
CountElement(element_dict, element) ==
    IF element \in DOMAIN element_dict
    THEN [element_dict EXCEPT ![element] = @ + 1]
    ELSE (element :> 1) @@ element_dict

RECURSIVE MullikenRows(_, _)
MullikenRows(table_text, element_dict) ==
    IF table_text = <<>> THEN Ok(<<>>)
    ELSE LET line == Head(table_text)
         IN  IF Len(line) < 2 THEN Raise("IndexError")
             ELSE LET charge == float(line[2])
                      dict   == CountElement(element_dict, line[1])
                      rest   == MullikenRows(Tail(table_text), dict)
                  IN  IF charge.err # "none" THEN charge
                      ELSE IF rest.err # "none" THEN rest
                      ELSE Ok(<<<<Label(line[1], Num(0, dict[line[1]], 0)), charge.v>>>>
                              \o rest.v)

get_charge_table_mulliken(log) ==
    IF ~log.exists THEN Raise("FileNotFoundError")
    ELSE LET table_start_indices == Indices(log.lines, "mulliken")
         IN  IF table_start_indices = {} THEN Raise("IndexError")
             ELSE LET raw_text == From(log.lines, SetMax(table_start_indices) - 1 + 2)
                      ends     == Indices(raw_text, "sum")
                  IN  IF ends = {} THEN Raise("IndexError")
                      ELSE LET kept == DropHydrogen(DropIndexColumn(
                                           SubSeq(raw_text, 1, SetMin(ends) - 1)))
                           IN  IF kept.err # "none" THEN kept
                               ELSE MullikenRows(kept.v, <<>>)

get_charge_table(pl, log) ==
    IF pl = "nbo" THEN get_charge_table_nbo(log) ELSE get_charge_table_mulliken(log)

-----------------------------------------------------------------------------
(* combine_tables: the same in both pipelines.  The dict overall_table is a  *)
(* list of [key, val] in insertion order; assigning to a key already there   *)
(* replaces its value in place.                                              *)

DictSet(d, key, val) ==
    IF \E j \in 1..Len(d) : d[j].key = key
    THEN [j \in 1..Len(d) |-> IF d[j].key = key THEN [key |-> key, val |-> val] ELSE d[j]]
    ELSE Append(d, [key |-> key, val |-> val])

\* [neutral, positive, negative, neutral - positive, negative - neutral]
CombinedEntrySwapped(neutral, negative, positive) ==
    <<neutral, positive, negative, FSub(negative, neutral), FSub(neutral, positive)>>
CombinedEntry(neutral, negative, positive) ==
    <<neutral, positive, negative, FSub(neutral, positive), FSub(negative, neutral)>>

\* the outcome of the if at index i: "same", "differ", or IndexError when a
\* table read by the condition has no index i (the and short-circuits)
CompareLabelsNegativeOnly(neu, neg, pos, i) ==
    IF i > Len(neg) THEN "IndexError"
    ELSE IF neu[i][1] # neg[i][1] THEN "differ"
    ELSE IF i > Len(pos) THEN "IndexError"
    ELSE "same"
CompareLabels(neu, neg, pos, i) ==
    IF i > Len(neg) THEN "IndexError"
    ELSE IF neu[i][1] # neg[i][1] THEN "differ"
    ELSE IF i > Len(pos) THEN "IndexError"
    ELSE IF neu[i][1] # pos[i][1] THEN "differ"
    ELSE "same"

RECURSIVE CombineFrom(_, _, _, _, _)
CombineFrom(neu, neg, pos, i, overall_table) ==
    IF i > Len(neu) THEN Ok(overall_table)
    ELSE LET c == CompareLabels(neu, neg, pos, i)
         IN  IF c = "IndexError" THEN Raise("IndexError")
             ELSE IF c = "differ" THEN Raise("Exception")
             ELSE CombineFrom(neu, neg, pos, i + 1,
                      DictSet(overall_table, neu[i][1],
                              CombinedEntry(neu[i][2], neg[i][2], pos[i][2])))

combine_tables(neutral_charge_table, negative_charge_table, positive_charge_table) ==
    CombineFrom(neutral_charge_table, negative_charge_table, positive_charge_table,
                1, <<>>)

-----------------------------------------------------------------------------
(* The files.  A file is the list of the blocks of text written to it, <<>>  *)
(* for a file that does not exist.  The plain-text variant writes floats     *)
(* with repr, which denotes the double itself; the csv variant writes the    *)
(* rounded values.                                                           *)

NoFiles == [electro_csv |-> <<>>, global_txt |-> <<>>, local_txt |-> <<>>]

\* open(path, mode) and one write: "w" truncates, "a" appends
OpenAppendWrite(old, mode, block) == old \o <<block>>
OpenWrite(old, mode, block) == IF mode = "w" THEN <<block>> ELSE old \o <<block>>

\* written_text of write_global_electro
GlobalText(pl, gp) ==
    LET vals == <<gp.electronegativity, gp.hardness, gp.softness,
                  gp.global_electrophilicity, gp.global_nucleophilicity>>
    IN  IF pl = "nbo"
        THEN [kind |-> "global", vals |-> [i \in 1..5 |-> Format4(vals[i])]]
        ELSE [kind |-> "global", vals |-> vals]

\* overall_table[key] += [overall_table[key][2] * global_nucleophilicity,
\*                        overall_table[key][2] * global_electrophilicity]
LocalIndices(val, global_electrophilicity, global_nucleophilicity) ==
    val \o <<FMul(val[3], global_nucleophilicity),
             FMul(val[3], global_electrophilicity)>>

\* the DataFrame written by to_csv: one row per key, rounded in the csv variant
Frame(pl, table) ==
    [kind |-> "local",
     rows |-> [i \in 1..Len(table) |->
                 [key |-> table[i].key,
                  val |-> IF pl = "nbo"
                          THEN [j \in 1..Len(table[i].val) |-> NpRound4(table[i].val[j])]
                          ELSE table[i].val]]]

\* everything write_local_electro computes before it writes
LocalComputed(neutral, negative, positive, combined, hl_, gp) ==
    [err      |-> FirstError(<<neutral, negative, positive, combined, hl_, gp>>),
     neutral  |-> neutral,
     negative |-> negative,
     positive |-> positive,
     combined |-> combined,
     gp       |-> gp,
     table    |-> IF gp.err = "none"
                  THEN [i \in 1..Len(combined.v) |->
                          [key |-> combined.v[i].key,
                           val |-> LocalIndices(combined.v[i].val,
                                                gp.global_electrophilicity,
                                                gp.global_nucleophilicity)]]
                  ELSE <<>>]

LocalFromHomoLumo(neutral, negative, positive, combined, hl_) ==
    LocalComputed(neutral, negative, positive, combined, hl_,
                  Then(hl_, get_properties(hl_.homo, hl_.lumo)))

LocalFromCombined(lg, neutral, negative, positive, combined) ==
    LocalFromHomoLumo(neutral, negative, positive, combined,
                      Then(combined, get_homo_lumo(lg.neutral)))

LocalFromTables(lg, neutral, negative, positive) ==
    LocalFromCombined(lg, neutral, negative, positive,
                      Then(positive, combine_tables(neutral.v, negative.v, positive.v)))

LocalFromNegative(pl, lg, neutral, negative) ==
    LocalFromTables(lg, neutral, negative,
                    Then(negative, get_charge_table(pl, lg.plus)))

LocalFromNeutral(pl, lg, neutral) ==
    LocalFromNegative(pl, lg, neutral, Then(neutral, get_charge_table(pl, lg.minus)))

LocalOutcome(pl, lg) == LocalFromNeutral(pl, lg, get_charge_table(pl, lg.neutral))

NoLocal == [err |-> "not reached", neutral |-> NotReached, negative |-> NotReached,
            positive |-> NotReached, combined |-> NotReached, gp |-> NotReached,
            table |-> <<>>]

-----------------------------------------------------------------------------
(* The logs of a run.                                                        *)

MaxAtoms == 2
MaxRuns == 2

Pipelines == {"nbo", "mulliken"}
Elements == {"C", "N", "H"}

Words(ws) == [i \in 1..Len(ws) |-> Word(ws[i])]
Tenths(ns) == [i \in 1..Len(ns) |-> Dec(ns[i], 1)]

PopLine == Line("pop", Words(<<"Population", "analysis", "using", "the", "SCF", "density.">>))
OccLine(toks) == Line("occ", Words(<<"Alpha", "occ.", "eigenvalues", "--">>) \o toks)
VirtLine(toks) == Line("virt", Words(<<"Alpha", "virt.", "eigenvalues", "--">>) \o toks)
Other(ws) == Line("other", Words(ws))

HomoTenths == {-3, -1, 1}
LumoTenths == {1, 3}
GoodLayouts == {"plain", "two_anchors", "two_lines"}
BadLayouts == {"no_anchor", "no_occ", "no_virt", "stars", "short_virt"}

EigenCases ==
    [layout : GoodLayouts, homo : HomoTenths, lumo : LumoTenths]
    \cup [layout : BadLayouts, homo : {-3}, lumo : {1}]

EigenLines(c) ==
    LET occ  == OccLine(Tenths(<<-5, c.homo>>))
        virt == VirtLine(Tenths(<<c.lumo, 4>>))
    IN  CASE c.layout = "plain" -> <<PopLine, occ, virt>>
          [] c.layout = "two_anchors" ->
                <<PopLine, OccLine(Tenths(<<-7, -6>>)), VirtLine(Tenths(<<9, 8>>)),
                  Other(<<"Optimization", "completed.">>), PopLine,
                  OccLine(Tenths(<<-9, -8>>)), occ, virt, VirtLine(Tenths(<<5, 6>>))>>
          [] c.layout = "two_lines" ->
                <<OccLine(Tenths(<<-4, -2>>)), PopLine, OccLine(Tenths(<<-9, -8>>)),
                  occ, virt, VirtLine(Tenths(<<5, 6>>))>>
          [] c.layout = "no_anchor" -> <<occ, virt>>
          [] c.layout = "no_occ" -> <<occ, PopLine, virt>>
          [] c.layout = "no_virt" -> <<PopLine, occ>>
          [] c.layout = "stars" ->
                <<PopLine, OccLine(<<Dec(-5, 1), Word("********")>>), virt>>
          [] c.layout = "short_virt" ->
                <<PopLine, occ, Line("virt", Words(<<"Alpha", "virt.", "eigenvalues", "--">>))>>

\* molecules: the elements of the atoms in log order, one heavy atom at least
RECURSIVE SeqsUpTo(_, _)
SeqsUpTo(S, n) ==
    IF n = 0 THEN {<<>>}
    ELSE LET shorter == SeqsUpTo(S, n - 1)
         IN  shorter \cup {Append(q, x) : q \in shorter, x \in S}

Molecules == {a \in SeqsUpTo(Elements, MaxAtoms) : \E i \in 1..Len(a) : a[i] # "H"}

\* the charge printed for atom i in the neutral, -1 and +1 logs (hundredths)
ChargeHundredths == [neutral |-> <<12, -34, 5>>, minus |-> <<-21, 7, -48>>,
                     plus |-> <<35, -2, 19>>]
ChargeTok(which, i) == Dec(ChargeHundredths[which][((i - 1) % 3) + 1], 2)

\* how the atoms of an ion log differ from those of the neutral log
IonCases == {<<"same", "same">>, <<"drop_last", "same">>, <<"same", "drop_last">>,
             <<"add_atom", "add_atom">>, <<"add_atom", "same">>,
             <<"relabel_last", "same">>, <<"same", "relabel_last">>,
             <<"no_marker", "same">>, <<"same", "missing">>, <<"stars", "same">>}

IonAtoms(atoms, v) ==
    CASE v = "drop_last" -> SubSeq(atoms, 1, Len(atoms) - 1)
      [] v = "add_atom" -> Append(atoms, "N")
      [] v = "relabel_last" -> [atoms EXCEPT ![Len(atoms)] = "O"]
      [] OTHER -> atoms

ChargeLines(pl, atoms, which, v) ==
    LET tok(i) == IF v = "stars" /\ i = 1 THEN Word("********") ELSE ChargeTok(which, i)
    IN  IF v = "no_marker" THEN <<>>
        ELSE IF pl = "nbo"
        THEN <<Line("section", Words(<<"Gaussian", "NBO", "Version", "3.1">>)),
               Other(<<"Job", "title:">>),
               Line("table", Words(<<"Summary", "of", "Natural", "Population", "Analysis:">>)),
               Other(<<>>),
               Other(<<"Natural", "Population">>),
               Other(<<"Natural", "---------">>),
               Other(<<"Atom", "No", "Charge", "Core", "Valence", "Rydberg", "Total">>),
               Other(<<"---------">>)>>
             \o [i \in 1..Len(atoms) |->
                   Line("none", <<Word(atoms[i]), Num(0, i, 0), tok(i), Dec(199, 2),
                                  Dec(401, 2), Dec(2, 2), Dec(602, 2)>>)]
             \o <<Line("end", Words(<<"=========">>)),
                  Other(<<"*", "Total", "*">>)>>
        ELSE <<Line("mulliken", Words(<<"Mulliken", "atomic", "charges:">>)),
               Line("none", <<Num(0, 1, 0)>>)>>
             \o [i \in 1..Len(atoms) |->
                   Line("none", <<Num(0, i, 0), Word(atoms[i]), tok(i)>>)]
             \o <<Line("sum", Words(<<"Sum", "of", "Mulliken", "atomic", "charges", "=">>))>>

Log(lines) == [exists |-> TRUE, lines |-> lines]
NoLog == [exists |-> FALSE, lines |-> <<>>]

IonLog(pl, atoms, which, v) ==
    IF v = "missing" THEN NoLog
    ELSE Log(<<PopLine>> \o ChargeLines(pl, IonAtoms(atoms, v), which, v))

Logs(pl, eig, atoms, ion) ==
    [neutral |-> Log(EigenLines(eig) \o ChargeLines(pl, atoms, "neutral", "same")),
     minus   |-> IonLog(pl, atoms, "minus", ion[1]),
     plus    |-> IonLog(pl, atoms, "plus", ion[2])]

ReferenceEigen == [layout |-> "plain", homo |-> -3, lumo |-> 1]
ReferenceAtoms == <<"C", "H", "N">>

\* every eigenvalue case on one molecule, and every molecule and ion case on
\* one eigenvalue case
Inputs ==
    {[eig |-> e, atoms |-> SubSeq(ReferenceAtoms, 1, MaxAtoms), ion |-> <<"same", "same">>] :
        e \in EigenCases}
    \cup {[eig |-> ReferenceEigen, atoms |-> a, ion |-> c] : a \in Molecules, c \in IonCases}

-----------------------------------------------------------------------------
(* The program: __main__ calls write_global_electro(path), then              *)
(* write_local_electro(path); an exception ends the run.                     *)

VARIABLES
    pipeline,        \* which of the two scripts is run
    logs,            \* the neutral, -1 and +1 logs
    files,           \* the output files
    pc,              \* "idle", "global", "local", "done", "failed"
    runs,            \* the runs started
    err,             \* the exception that ended the run, "none" otherwise
    hl,              \* what get_homo_lumo returned to write_global_electro
    props,           \* what get_properties returned to write_global_electro
    loc,             \* what write_local_electro computed
    filesAtStart,    \* the files when the run began
    filesAfterFirst  \* the files when the first run ended

vars == <<pipeline, logs, files, pc, runs, err, hl, props, loc, filesAtStart,
          filesAfterFirst>>

Init ==
    /\ pipeline \in Pipelines
    /\ \E in \in Inputs : logs = Logs(pipeline, in.eig, in.atoms, in.ion)
    /\ files = NoFiles
    /\ pc = "idle"
    /\ runs = 0
    /\ err = "none"
    /\ hl = NotReached
    /\ props = NotReached
    /\ loc = NoLocal
    /\ filesAtStart = NoFiles
    /\ filesAfterFirst = NoFiles

\* the script is started (again) on the same logs
StartRun ==
    /\ pc \in {"idle", "done", "failed"}
    /\ runs < MaxRuns
    /\ pc' = "global"
    /\ runs' = runs + 1
    /\ err' = "none"
    /\ hl' = NotReached
    /\ props' = NotReached
    /\ loc' = NoLocal
    /\ filesAtStart' = files
    /\ UNCHANGED <<pipeline, logs, files, filesAfterFirst>>

Ended(nextPc, nextFiles) ==
    filesAfterFirst' = IF runs = 1 /\ nextPc \in {"done", "failed"}
                       THEN nextFiles ELSE filesAfterFirst

\* everything write_global_electro computes, and the files it leaves
GlobalComputed(pl, old, r, gp) ==
    [hl    |-> r,
     props |-> gp,
     err   |-> FirstError(<<r, gp>>),
     files |-> IF FirstError(<<r, gp>>) # "none" THEN old
               ELSE IF pl = "nbo"
               THEN [old EXCEPT !.electro_csv = OpenWrite(@, "w", GlobalText(pl, gp))]
               ELSE [old EXCEPT !.global_txt = OpenWrite(@, "w", GlobalText(pl, gp))]]

GlobalFromHomoLumo(pl, old, r) ==
    GlobalComputed(pl, old, r, Then(r, get_properties(r.homo, r.lumo)))

GlobalOutcome(pl, lg, old) == GlobalFromHomoLumo(pl, old, get_homo_lumo(lg.neutral))

\* the files write_local_electro leaves
LocalFiles(pl, old, o) ==
    IF o.err # "none" THEN old
    ELSE IF pl = "nbo"
    THEN [old EXCEPT !.electro_csv = OpenWrite(@, "a", Frame(pl, o.table))]
    ELSE [old EXCEPT !.local_txt = OpenWrite(@, "w", Frame(pl, o.table))]

write_global_electro ==
    /\ pc = "global"
    /\ \E o \in {GlobalOutcome(pipeline, logs, files)} :
          /\ hl' = o.hl
          /\ props' = o.props
          /\ err' = o.err
          /\ files' = o.files
          /\ pc' = IF o.err = "none" THEN "local" ELSE "failed"
          /\ Ended(IF o.err = "none" THEN "local" ELSE "failed", o.files)
    /\ UNCHANGED <<pipeline, logs, runs, loc, filesAtStart>>

write_local_electro ==
    /\ pc = "local"
    /\ \E o \in {LocalOutcome(pipeline, logs)} :
          /\ loc' = o
          /\ err' = o.err
          /\ \E out \in {LocalFiles(pipeline, files, o)} :
                /\ files' = out
                /\ Ended(IF o.err = "none" THEN "done" ELSE "failed", out)
          /\ pc' = IF o.err = "none" THEN "done" ELSE "failed"
    /\ UNCHANGED <<pipeline, logs, runs, hl, props, filesAtStart>>

Next == StartRun \/ write_global_electro \/ write_local_electro

Spec == Init /\ [][Next]_vars

-----------------------------------------------------------------------------
(* The properties checked.                                                   *)

RunEnded == pc \in {"done", "failed"}

\* write_local_electro read all three charge tables and called combine_tables
CombineCalled == loc.positive.err = "none"
Neutral  == loc.neutral.v
Negative == loc.negative.v
Positive == loc.positive.v
SameLengths == Len(Neutral) = Len(Negative) /\ Len(Neutral) = Len(Positive)
LabelsDifferAt(i) ==
    Neutral[i][1] # Negative[i][1] \/ Neutral[i][1] # Positive[i][1]

AllBlocks(f) == {f.electro_csv[i] : i \in 1..Len(f.electro_csv)}
                \cup {f.global_txt[i] : i \in 1..Len(f.global_txt)}
                \cup {f.local_txt[i] : i \in 1..Len(f.local_txt)}
LocalBlocks(f) == {b \in AllBlocks(f) : b.kind = "local"}
GlobalBlocks(f) == {b \in AllBlocks(f) : b.kind = "global"}
HoldsNonFinite(f) ==
    \/ \E b \in GlobalBlocks(f) : \E i \in 1..Len(b.vals) : b.vals[i].k # "fin"
    \/ \E b \in LocalBlocks(f) : \E i \in 1..Len(b.rows) :
          \E j \in 1..Len(b.rows[i].val) : b.rows[i].val[j].k # "fin"

\* C1: in every row write_local_electro builds, local_nucleophilicity is
\* f_minus * global_nucleophilicity and local_electrophilicity is
\* f_minus * global_electrophilicity, f_minus = neutral - cation of the row.
C1_LocalIndicesFromFMinus ==
    loc.err = "none" =>
        \A i \in 1..Len(loc.table) :
            /\ loc.table[i].val[4] = FSub(loc.table[i].val[1], loc.table[i].val[2])
            /\ loc.table[i].val[6] =
                   FMul(loc.table[i].val[4], loc.gp.global_nucleophilicity)
            /\ loc.table[i].val[7] =
                   FMul(loc.table[i].val[4], loc.gp.global_electrophilicity)

\* C2: a run that fails leaves every output file as it was when the run
\* began: nothing is written before all the computations have succeeded.
C2_NoOutputFromFailedRun ==
    pc = "failed" => files = filesAtStart

\* C3: combine_tables raises whenever the three tables do not all have the
\* same length.
C3_LengthMismatchRaises ==
    (CombineCalled /\ ~SameLengths) => loc.combined.err # "none"

\* C4: for tables of equal length with a label that differs at some index,
\* combine_tables raises its exception, no row is produced and no local
\* table is in any file.
C4_LabelMismatchRaises ==
    (CombineCalled /\ SameLengths /\ \E i \in 1..Len(Neutral) : LabelsDifferAt(i)) =>
        /\ loc.combined.err = "Exception"
        /\ loc.table = <<>>
        /\ pc = "failed"
        /\ LocalBlocks(files) = {}

C4_Witness ==
    /\ CombineCalled /\ SameLengths /\ Len(Neutral) >= 2
    /\ ~LabelsDifferAt(1) /\ LabelsDifferAt(2)
    /\ loc.combined.err = "Exception"

\* C5: for tables of length N with the same label at every index,
\* combine_tables returns N entries, entry i keyed by the label of index i and
\* holding neutral, cation, anion, neutral - cation and anion - neutral.
C5_CombinedEntries ==
    (CombineCalled /\ SameLengths /\ \A i \in 1..Len(Neutral) : ~LabelsDifferAt(i)) =>
        /\ loc.combined.err = "none"
        /\ Len(loc.combined.v) = Len(Neutral)
        /\ \A i \in 1..Len(Neutral) :
              /\ loc.combined.v[i].key = Neutral[i][1]
              /\ loc.combined.v[i].val =
                    <<Neutral[i][2], Positive[i][2], Negative[i][2],
                      FSub(Neutral[i][2], Positive[i][2]),
                      FSub(Negative[i][2], Neutral[i][2])>>

C5_Witness ==
    /\ CombineCalled /\ SameLengths /\ Len(Neutral) >= 2
    /\ loc.combined.err = "none" /\ Len(loc.combined.v) = Len(Neutral)
    /\ loc.combined.v[2].val[4] # loc.combined.v[2].val[5]

\* write_global_electro read a homo and a lumo whose hardness is 0
ZeroHardness ==
    /\ hl.err = "none"
    /\ FIsZero(Hardness(AuToEnergy(hl.homo, hl.lumo).homo,
                        AuToEnergy(hl.homo, hl.lumo).lumo))

\* C6: when hardness is 0 get_properties raises ZeroDivisionError, the run
\* fails without writing, and no file holds an infinite or NaN value.
C6_ZeroHardnessRaises ==
    ZeroHardness =>
        /\ props.err = "ZeroDivisionError"
        /\ pc = "failed"
        /\ files = filesAtStart
        /\ ~HoldsNonFinite(files)

C6_Witness ==
    ZeroHardness /\ hl.homo = hl.lumo /\ props.err = "ZeroDivisionError" /\ pc = "failed"

\* write_global_electro of write_electro_nbo.py read homo = -0.3, lumo = 0.1
ReferenceCase ==
    /\ pipeline = "nbo"
    /\ hl.err = "none"
    /\ hl.homo = Lit(-3, 1)
    /\ hl.lumo = Lit(1, 1)
WrittenUnits == [i \in 1..5 |-> files.electro_csv[1].vals[i].n]

\* C7 as stated: for homo = -0.3 and lumo = 0.1 the values written with four
\* decimals are 2.7212, 10.8848, 0.0459, 0.3405, 2.9372.
C7_ValuesAsStated ==
    ReferenceCase => WrittenUnits = <<27212, 108848, 459, 3405, 29372>>

\* C7 as computed: for homo = -0.3 and lumo = 0.1 the values written with
\* four decimals are 2.7212, 10.8848, 0.0459, 0.3401, 2.9399.
C7_ValuesAsComputed ==
    ReferenceCase =>
        /\ props.err = "none"
        /\ WrittenUnits = <<27212, 108848, 459, 3401, 29399>>
        /\ \A i \in 1..5 : files.electro_csv[1].vals[i].s = 0

C7_Witness ==
    ReferenceCase /\ pc = "local" /\ WrittenUnits[4] = 3401

\* C8: when a second (or later) run on the same logs has ended, every file
\* holds what it held when the first run ended.
C8_RerunLeavesFilesAlike ==
    (RunEnded /\ runs >= 2) => files = filesAfterFirst

C8_Witness ==
    /\ pipeline = "nbo" /\ runs = 2 /\ pc = "done"
    /\ Len(files.electro_csv) = 2
    /\ files = filesAfterFirst

\* the rows of the charge table the pipeline reads, hydrogens dropped, as
\* <<element token, atom number token>>
TableRows(lines) ==
    SelectSeq(lines, LAMBDA l : l.mark = "none" /\ Len(l.toks) >= 3)
HeavyAtoms(lines) ==
    LET rows == TableRows(lines)
        atom(i) == IF pipeline = "nbo" THEN <<rows[i].toks[1], rows[i].toks[2]>>
                   ELSE <<rows[i].toks[2], rows[i].toks[1]>>
    IN  SelectSeq([i \in 1..Len(rows) |-> atom(i)], LAMBDA a : a[1] # Word("H"))
Occurrence(atoms, k) == Cardinality({j \in 1..k : atoms[j][1] = atoms[k][1]})
ParsedTables ==
    {<<logs.neutral, loc.neutral>>, <<logs.minus, loc.negative>>,
     <<logs.plus, loc.positive>>}

\* C9 as stated: in both pipelines the label of the k-th retained row is its
\* element followed by the count of retained rows of that element so far.
C9_OccurrenceLabelsEverywhere ==
    \A t \in ParsedTables :
        t[2].err = "none" =>
            /\ Len(t[2].v) = Len(HeavyAtoms(t[1].lines))
            /\ \A k \in 1..Len(t[2].v) :
                  t[2].v[k][1] = <<HeavyAtoms(t[1].lines)[k][1],
                                   Num(0, Occurrence(HeavyAtoms(t[1].lines), k), 0)>>

\* C9 as the code has it: the per-element count in write_electro_properties.py,
\* the atom number printed in the row in write_electro_nbo.py.
C9_Labels ==
    \A t \in ParsedTables :
        t[2].err = "none" =>
            /\ Len(t[2].v) = Len(HeavyAtoms(t[1].lines))
            /\ \A k \in 1..Len(t[2].v) :
                  t[2].v[k][1] =
                      IF pipeline = "nbo" THEN HeavyAtoms(t[1].lines)[k]
                      ELSE <<HeavyAtoms(t[1].lines)[k][1],
                             Num(0, Occurrence(HeavyAtoms(t[1].lines), k), 0)>>

C9_Witness ==
    /\ pipeline = "mulliken" /\ CombineCalled
    /\ Len(Positive) = 3
    /\ Positive[1][1] = <<Word("C"), Num(0, 1, 0)>>
    /\ Positive[2][1] = <<Word("C"), Num(0, 2, 0)>>
    /\ Positive[3][1] = <<Word("N"), Num(0, 1, 0)>>

\* the last anchor line of the neutral log, the last occupied line and the
\* first virtual line at or after it
Anchor == SetMax(Indices(logs.neutral.lines, "pop"))
LastOcc == SetMax({i \in Indices(logs.neutral.lines, "occ") : i >= Anchor})
FirstVirt == SetMin({i \in Indices(logs.neutral.lines, "virt") : i >= Anchor})

\* C10: HOMO is the last token of the last occupied line at or after the
\* last anchor, LUMO the token at index 4 of the first virtual line at or
\* after it; lines before the last anchor do not count.
C10_HomoLumoAfterLastAnchor ==
    hl.err = "none" =>
        /\ hl.homo = float(logs.neutral.lines[LastOcc].toks[
                               Len(logs.neutral.lines[LastOcc].toks)]).v
        /\ hl.lumo = float(logs.neutral.lines[FirstVirt].toks[4 + 1]).v

C10_Witness ==
    /\ hl.err = "none"
    /\ Cardinality(Indices(logs.neutral.lines, "pop")) >= 2
    /\ Cardinality({i \in Indices(logs.neutral.lines, "occ") : i >= Anchor}) >= 2
    /\ Cardinality({i \in Indices(logs.neutral.lines, "virt") : i >= Anchor}) >= 2
    /\ \E i \in Indices(logs.neutral.lines, "occ") : i < Anchor

====
